---- MODULE Spec2Model ----
(***************************************************************************)
(* A model of sjb-tools' todo list (src/sjb/td/classes.py) and of the      *)
(* cheat sheet command line front end (src/sjb/cs/main.py).                *)
(*                                                                         *)
(* Python values that may be None are modelled as sets of at most one      *)
(* element: None is {} and the value v is {v}.                             *)
(***************************************************************************)
EXTENDS Integers, Sequences, FiniteSets, TLC

\* ------------------------------------------------------------------ bounds
MaxOid   == 2   \* highest oid a fresh add may issue
MaxClock == 2   \* highest value of the wall clock
NumInv   == 2   \* command invocations running at once
MaxTodos == 2   \* most todos a document holds

\* --------------------------------------------------------- python helpers
None == {}
Some(v) == {v}
Val(o) == CHOOSE v \in o : TRUE

Max(a, b) == IF a >= b THEN a ELSE b

Range(s) == {s[i] : i \in 1..Len(s)}

\* The exceptions of sjb.common.base, and "" for a call that returned.
NoError == ""
IllegalStateError == "IllegalStateError"
InvalidIDError == "InvalidIDError"
ValidationError == "ValidationError"

\* -------------------------------------------------------------- PriorityEnum
URGENT == 1
DEFAULT == 2
LONG_TERM == 3

\* --------------------------------------------------------------- input sets
AllTags == <<"bash", "home", "shell", "work">>   \* the tags in use, in str order

\* str.__lt__ on the tags in use.
TagIndex(t) == CHOOSE i \in 1..Len(AllTags) : AllTags[i] = t
TagLess(a, b) == TagIndex(a) < TagIndex(b)

\* sorted(list(tags)): the tags as an ascending sequence.
RECURSIVE Sorted(_)
Sorted(S) ==
  IF S = {} THEN <<>>
  ELSE LET m == CHOOSE x \in S : \A y \in S \ {x} : TagLess(x, y)
       IN <<m>> \o Sorted(S \ {m})

\* ---------------------------------------------------------------------- Todo
\* Todo.__init__: priority, tags, finished default when None.
Todo(text, priority, tags, finished, created_date, finished_date, oid) ==
  [oid           |-> oid,
   text          |-> text,
   priority      |-> IF priority # None THEN Val(priority) ELSE DEFAULT,
   tags          |-> IF tags # None THEN Val(tags) ELSE {},
   finished      |-> IF finished # None THEN Val(finished) ELSE FALSE,
   created_date  |-> created_date,
   finished_date |-> finished_date]

\* Todo.__eq__ (Item.__eq__ compares the oid).
TodoEq(a, b) ==
  /\ a.oid = b.oid
  /\ a.text = b.text
  /\ a.priority = b.priority
  /\ a.tags = b.tags
  /\ a.finished = b.finished
  /\ a.created_date = b.created_date
  /\ a.finished_date = b.finished_date

\* Todo._to_dict
Todo_to_dict(t) ==
  [oid           |-> t.oid,
   tags          |-> Sorted(t.tags),
   priority      |-> t.priority,
   text          |-> t.text,
   finished      |-> t.finished,
   created_date  |-> t.created_date,
   finished_date |-> t.finished_date]

\* Todo.from_dict reading the oid from the wrong key.
Todo_from_dict_WrongKey(d) ==
  Todo(d.text, Some(d.priority), Some(Range(d.tags)), Some(d.finished),
       d.created_date, d.finished_date, Some(d.priority))

\* Todo.from_dict
Todo_from_dict(d) ==
  Todo(d.text, Some(d.priority), Some(Range(d.tags)), Some(d.finished),
       d.created_date, d.finished_date, d.oid)

\* Item._validate: the oid is unset or an integer.
Item_validate(t) ==
  IF t.oid # None /\ Val(t.oid) \notin Int THEN ValidationError ELSE NoError

\* Todo._validate, the exception it raises.  The isinstance tests of text, tags
\* and finished hold for every todo built here; a date is a float when it is
\* set.
Todo_validate(t) ==
  IF Item_validate(t) # NoError THEN ValidationError
  ELSE IF t.text = "" THEN ValidationError
  ELSE IF t.priority \notin {URGENT, DEFAULT, LONG_TERM} THEN ValidationError
  ELSE IF \E tag \in t.tags : tag = "" THEN ValidationError
  ELSE IF t.created_date = None THEN ValidationError
  ELSE IF t.finished /\ t.finished_date = None THEN ValidationError
  ELSE IF ~t.finished /\ t.finished_date # None THEN ValidationError
  ELSE NoError

\* ------------------------------------------------------------------ ItemList
\* A list is a record [items, next_oid, modified_date, version, tag_set]; an
\* operation on it yields [l |-> the list after the call, err |-> the
\* exception raised or NoError, ret |-> Some(the item returned) or None].
Result(l, err, ret) == [l |-> l, err |-> err, ret |-> ret]

\* ItemList.__init__ and TodoList.__init__
TodoList_init(version, modified_date) ==
  [items |-> <<>>, next_oid |-> 1, modified_date |-> modified_date,
   version |-> version, tag_set |-> {}]

\* ItemList._mark_modified
MarkModified(l, t) == [l EXCEPT !.modified_date = Some(t)]

\* ItemList.add_item
ItemList_add_item(l, item, initial_load, t) ==
  IF initial_load
  THEN IF item.oid = None
       THEN Result(l, IllegalStateError, None)
       ELSE Result([l EXCEPT !.next_oid = Max(l.next_oid, Val(item.oid) + 1),
                             !.items = Append(l.items, item)],
                   NoError, Some(item))
  ELSE IF item.oid # None
       THEN Result(l, IllegalStateError, None)
       ELSE LET fresh == [item EXCEPT !.oid = Some(l.next_oid)]
            IN Result(MarkModified([l EXCEPT !.next_oid = l.next_oid + 1,
                                             !.items = Append(l.items, fresh)],
                                   t),
                      NoError, Some(fresh))

\* Positions of the items carrying oid.
Positions(l, oid) == {i \in 1..Len(l.items) : l.items[i].oid = Some(oid)}

\* ItemList.get_item
ItemList_get_item(l, oid) ==
  IF Positions(l, oid) = {}
  THEN Result(l, InvalidIDError, None)
  ELSE LET i == CHOOSE j \in Positions(l, oid) : \A k \in Positions(l, oid) : j <= k
       IN Result(l, NoError, Some(l.items[i]))

\* The sequence s without its i-th element.
RemoveAt(s, i) == SubSeq(s, 1, i - 1) \o SubSeq(s, i + 1, Len(s))

\* ItemList.remove_item
ItemList_remove_item(l, oid, t) ==
  IF Positions(l, oid) = {}
  THEN Result(l, InvalidIDError, None)
  ELSE LET i == CHOOSE j \in Positions(l, oid) : \A k \in Positions(l, oid) : j <= k
       IN Result(MarkModified([l EXCEPT !.items = RemoveAt(l.items, i)], t),
                 NoError, Some(l.items[i]))

\* ------------------------------------------------------------------ TodoList
\* TodoList._update_object_maps
UpdateObjectMaps(l, item) == [l EXCEPT !.tag_set = l.tag_set \cup item.tags]

\* TodoList._recompute_object_maps
RECURSIVE RecomputeFrom(_, _)
RecomputeFrom(l, i) ==
  IF i > Len(l.items) THEN l
  ELSE RecomputeFrom(UpdateObjectMaps(l, l.items[i]), i + 1)

RecomputeObjectMaps(l) == RecomputeFrom([l EXCEPT !.tag_set = {}], 1)

\* The list with its last item (the object add_item was given) replaced.
SetLast(l, item) == [l EXCEPT !.items[Len(l.items)] = item]

\* TodoList.add_item marking the list modified for a loaded item too.
TodoList_add_item_MarkOnLoad(l, item, initial_load, t) ==
  LET base == ItemList_add_item(l, item, initial_load, t)
  IN IF base.err # NoError THEN base
     ELSE LET added == Val(base.ret)
          IN IF ~initial_load
             THEN IF added.created_date # None
                  THEN Result(base.l, IllegalStateError, None)
                  ELSE IF added.finished
                  THEN Result(base.l, IllegalStateError, None)
                  ELSE LET stamped == [added EXCEPT !.created_date = Some(t),
                                                    !.finished = FALSE]
                       IN Result(UpdateObjectMaps(SetLast(base.l, stamped), stamped),
                                 NoError, Some(stamped))
             ELSE Result(MarkModified(UpdateObjectMaps(base.l, added), t),
                         NoError, Some(added))

\* TodoList.add_item
TodoList_add_item(l, item, initial_load, t) ==
  LET base == ItemList_add_item(l, item, initial_load, t)
  IN IF base.err # NoError THEN base
     ELSE LET added == Val(base.ret)
          IN IF ~initial_load
             THEN IF added.created_date # None
                  THEN Result(base.l, IllegalStateError, None)
                  ELSE IF added.finished
                  THEN Result(base.l, IllegalStateError, None)
                  ELSE LET stamped == [added EXCEPT !.created_date = Some(t),
                                                    !.finished = FALSE]
                       IN Result(UpdateObjectMaps(SetLast(base.l, stamped), stamped),
                                 NoError, Some(stamped))
             ELSE Result(UpdateObjectMaps(base.l, added), NoError, Some(added))

\* The list with the first item carrying oid replaced.
SetItem(l, oid, item) ==
  LET i == CHOOSE j \in Positions(l, oid) : \A k \in Positions(l, oid) : j <= k
  IN [l EXCEPT !.items[i] = item]

\* TodoList.complete_item without its checks of the todo's state.
TodoList_complete_item_Unchecked(l, oid, set_complete, t) ==
  LET got == ItemList_get_item(l, oid)
  IN IF got.err # NoError THEN got
     ELSE LET item == Val(got.ret)
          IN IF set_complete
             THEN LET done == [item EXCEPT !.finished = TRUE,
                                           !.finished_date = Some(t)]
                  IN Result(MarkModified(SetItem(l, oid, done), t), NoError, Some(done))
             ELSE LET undone == [item EXCEPT !.finished = FALSE,
                                             !.finished_date = None]
                  IN Result(SetItem(l, oid, undone), NoError, Some(undone))

\* TodoList.complete_item marking the list modified in both branches.
TodoList_complete_item_MarkBoth(l, oid, set_complete, t) ==
  LET got == ItemList_get_item(l, oid)
  IN IF got.err # NoError THEN got
     ELSE LET item == Val(got.ret)
          IN IF set_complete /\ item.finished
             THEN Result(l, IllegalStateError, None)
             ELSE IF ~set_complete /\ ~item.finished
             THEN Result(l, IllegalStateError, None)
             ELSE IF set_complete
             THEN LET done == [item EXCEPT !.finished = TRUE,
                                           !.finished_date = Some(t)]
                  IN Result(MarkModified(SetItem(l, oid, done), t), NoError, Some(done))
             ELSE LET undone == [item EXCEPT !.finished = FALSE,
                                             !.finished_date = None]
                  IN Result(MarkModified(SetItem(l, oid, undone), t), NoError, Some(undone))

\* TodoList.complete_item
TodoList_complete_item(l, oid, set_complete, t) ==
  LET got == ItemList_get_item(l, oid)
  IN IF got.err # NoError THEN got
     ELSE LET item == Val(got.ret)
          IN IF set_complete /\ item.finished
             THEN Result(l, IllegalStateError, None)
             ELSE IF ~set_complete /\ ~item.finished
             THEN Result(l, IllegalStateError, None)
             ELSE IF set_complete
             THEN LET done == [item EXCEPT !.finished = TRUE,
                                           !.finished_date = Some(t)]
                  IN Result(MarkModified(SetItem(l, oid, done), t), NoError, Some(done))
             ELSE LET undone == [item EXCEPT !.finished = FALSE,
                                             !.finished_date = None]
                  IN Result(SetItem(l, oid, undone), NoError, Some(undone))

\* TodoList.remove_item
TodoList_remove_item(l, oid, t) ==
  LET removed == ItemList_remove_item(l, oid, t)
  IN IF removed.err # NoError THEN removed
     ELSE Result(RecomputeObjectMaps(removed.l), NoError, removed.ret)

\* TodoList.update_item marking the list modified before it looks the item up.
TodoList_update_item_MarkFirst(l, oid, text, priority, tags, t) ==
  LET got == ItemList_get_item(l, oid)
  IN IF got.err # NoError THEN Result(MarkModified(l, t), got.err, None)
     ELSE LET original_item == Val(got.ret)
              item == [original_item EXCEPT
                         !.text = IF text # None THEN Val(text) ELSE @,
                         !.priority = IF priority # None THEN Val(priority) ELSE @,
                         !.tags = IF tags # None THEN Val(tags) ELSE @]
          IN Result(RecomputeObjectMaps(MarkModified(SetItem(l, oid, item), t)),
                    NoError, Some(item))

\* TodoList.update_item writing Todo's defaults where an argument is None.
TodoList_update_item_Defaults(l, oid, text, priority, tags, t) ==
  LET got == ItemList_get_item(l, oid)
  IN IF got.err # NoError THEN got
     ELSE LET original_item == Val(got.ret)
              item == [original_item EXCEPT
                         !.text = IF text # None THEN Val(text) ELSE @,
                         !.priority = IF priority # None THEN Val(priority) ELSE DEFAULT,
                         !.tags = IF tags # None THEN Val(tags) ELSE {}]
              updated == SetItem(l, oid, item)
          IN IF ~TodoEq(original_item, item)
             THEN Result(RecomputeObjectMaps(MarkModified(updated, t)), NoError, Some(item))
             ELSE Result(updated, NoError, Some(item))

\* TodoList.update_item marking the list modified without comparing the item
\* with its copy.
TodoList_update_item_AlwaysMark(l, oid, text, priority, tags, t) ==
  LET got == ItemList_get_item(l, oid)
  IN IF got.err # NoError THEN got
     ELSE LET original_item == Val(got.ret)
              item == [original_item EXCEPT
                         !.text = IF text # None THEN Val(text) ELSE @,
                         !.priority = IF priority # None THEN Val(priority) ELSE @,
                         !.tags = IF tags # None THEN Val(tags) ELSE @]
          IN Result(RecomputeObjectMaps(MarkModified(SetItem(l, oid, item), t)),
                    NoError, Some(item))

\* TodoList.update_item recomputing the maps only when the tags have changed.
TodoList_update_item_TagsOnly(l, oid, text, priority, tags, t) ==
  LET got == ItemList_get_item(l, oid)
  IN IF got.err # NoError THEN got
     ELSE LET original_item == Val(got.ret)
              item == [original_item EXCEPT
                         !.text = IF text # None THEN Val(text) ELSE @,
                         !.priority = IF priority # None THEN Val(priority) ELSE @,
                         !.tags = IF tags # None THEN Val(tags) ELSE @]
              updated == SetItem(l, oid, item)
          IN IF ~TodoEq(original_item, item)
             THEN IF original_item.tags # item.tags
                  THEN Result(RecomputeObjectMaps(MarkModified(updated, t)), NoError, Some(item))
                  ELSE Result(MarkModified(updated, t), NoError, Some(item))
             ELSE Result(updated, NoError, Some(item))

\* TodoList.update_item
TodoList_update_item(l, oid, text, priority, tags, t) ==
  LET got == ItemList_get_item(l, oid)
  IN IF got.err # NoError THEN got
     ELSE LET original_item == Val(got.ret)
              item == [original_item EXCEPT
                         !.text = IF text # None THEN Val(text) ELSE @,
                         !.priority = IF priority # None THEN Val(priority) ELSE @,
                         !.tags = IF tags # None THEN Val(tags) ELSE @]
              updated == SetItem(l, oid, item)
          IN IF ~TodoEq(original_item, item)
             THEN Result(RecomputeObjectMaps(MarkModified(updated, t)), NoError, Some(item))
             ELSE Result(updated, NoError, Some(item))

\* update_item ran _recompute_object_maps: the only statement of update_item
\* that assigns _tag_set, and it builds the set anew from the items.  So a
\* tag that no item carries is gone from _tag_set exactly when it ran.
NoItemsTag == "?"
UpdateRecomputes(l, oid, text, priority, tags, t) ==
  LET probe == [l EXCEPT !.tag_set = @ \cup {NoItemsTag}]
  IN NoItemsTag \notin TodoList_update_item(probe, oid, text, priority, tags, t).l.tag_set

\* TodoMatcher.__init__
TodoMatcher(tags, priority, finished) ==
  [tags |-> tags, priority |-> priority, finished |-> finished]

\* TodoMatcher.matches asking for any of the tags instead of all of them.
TodoMatcher_matches_AnyTag(m, item) ==
  IF m.priority # None /\ item.priority # Val(m.priority) THEN FALSE
  ELSE IF /\ m.tags # None
          /\ Val(m.tags) # {}
          /\ \A tag \in Val(m.tags) : tag \notin item.tags
       THEN FALSE
  ELSE IF m.finished # None /\ item.finished # Val(m.finished) THEN FALSE
  ELSE TRUE

\* TodoMatcher.matches
TodoMatcher_matches(m, item) ==
  IF m.priority # None /\ item.priority # Val(m.priority) THEN FALSE
  ELSE IF \E tag \in (IF m.tags # None THEN Val(m.tags) ELSE {}) : tag \notin item.tags
       THEN FALSE
  ELSE IF m.finished # None /\ item.finished # Val(m.finished) THEN FALSE
  ELSE TRUE

\* ItemList.query_items with a TodoMatcher
TodoList_query_items(l, m) ==
  SelectSeq(l.items, LAMBDA item : TodoMatcher_matches(m, item))

\* TodoList.to_dict
TodoList_to_dict(l) ==
  [todo_list |->
     [version       |-> l.version,
      modified_date |-> l.modified_date,
      todos         |-> [i \in 1..Len(l.items) |-> Todo_to_dict(l.items[i])]]]

\* dict.get(key, None)
DictGet(d, key) == IF key \in DOMAIN d THEN d[key] ELSE None

\* TodoList.from_dict: the items are added in the document's order; an
\* exception of add_item ends the load.
RECURSIVE LoadTodos(_, _, _)
LoadTodos(r, todos, i) ==
  IF r.err # NoError \/ i > Len(todos) THEN r
  ELSE LoadTodos(TodoList_add_item(r.l, Todo_from_dict(todos[i]), TRUE, 0), todos, i + 1)

TodoList_from_dict(json_dict) ==
  LET d == json_dict.todo_list
      l == TodoList_init(DictGet(d, "version"), DictGet(d, "modified_date"))
  IN LoadTodos(Result(l, NoError, None), d.todos, 1)

\* -------------------------------------------------------- Entry, CheatSheet
NoListFileError == "NoListFileError"

\* sjb.cs.classes.Entry
Entry(clue, answer, primary, tags, oid) ==
  [oid |-> oid, clue |-> clue, answer |-> answer, primary |-> primary, tags |-> tags]

\* sjb.cs.classes.CheatSheet()
CheatSheet_init(sheet_version, sheet_modified) ==
  [items |-> <<>>, next_oid |-> 1, modified_date |-> sheet_modified,
   version |-> sheet_version, primary_map |-> <<>>, tag_set |-> {}]

\* CheatSheet: primary_map and tag_set extended by one entry.
CheatSheet_update_maps(l, e) ==
  [l EXCEPT !.primary_map =
              IF e.primary \in DOMAIN l.primary_map
              THEN [l.primary_map EXCEPT ![e.primary] = Append(@, e)]
              ELSE [k \in DOMAIN l.primary_map \cup {e.primary} |->
                      IF k = e.primary THEN <<e>> ELSE l.primary_map[k]],
            !.tag_set = l.tag_set \cup e.tags]

\* CheatSheet: primary_map and tag_set rebuilt from all entries.
RECURSIVE CheatSheet_recompute_from(_, _)
CheatSheet_recompute_from(l, i) ==
  IF i > Len(l.items) THEN l
  ELSE CheatSheet_recompute_from(CheatSheet_update_maps(l, l.items[i]), i + 1)

CheatSheet_recompute_maps(l) ==
  CheatSheet_recompute_from([l EXCEPT !.primary_map = <<>>, !.tag_set = {}], 1)

\* CheatSheet.add_item
CheatSheet_add_item(l, entry, initial_load, t) ==
  LET base == ItemList_add_item(l, entry, initial_load, t)
  IN IF base.err # NoError THEN base
     ELSE Result(CheatSheet_update_maps(base.l, Val(base.ret)), NoError, base.ret)

\* CheatSheet.update_item
CheatSheet_update_item(l, oid, clue, answer, primary, tags, t) ==
  LET got == ItemList_get_item(l, oid)
  IN IF got.err # NoError THEN got
     ELSE LET original == Val(got.ret)
              entry == [original EXCEPT
                          !.clue = IF clue # None THEN Val(clue) ELSE @,
                          !.answer = IF answer # None THEN Val(answer) ELSE @,
                          !.primary = IF primary # None THEN Val(primary) ELSE @,
                          !.tags = IF tags # None THEN Val(tags) ELSE @]
              updated == SetItem(l, oid, entry)
          IN IF original # entry
             THEN Result(CheatSheet_recompute_maps(MarkModified(updated, t)),
                         NoError, Some(entry))
             ELSE Result(updated, NoError, Some(entry))

\* CheatSheet.remove_item leaving primary_map and tag_set as they are.
CheatSheet_remove_item_NoRecompute(l, oid, t) == ItemList_remove_item(l, oid, t)

\* CheatSheet.remove_item
CheatSheet_remove_item(l, oid, t) ==
  LET removed == ItemList_remove_item(l, oid, t)
  IN IF removed.err # NoError THEN removed
     ELSE Result(CheatSheet_recompute_maps(removed.l), NoError, removed.ret)

\* sjb.cs.classes.SEARCH_OR, SEARCH_AND
SEARCH_OR == "or"
SEARCH_AND == "and"

\* sjb.cs.classes.EntryMatcherTags(tags, andor)
EntryMatcherTags(tags, andor) == [tags |-> tags, andor |-> andor]

\* EntryMatcherTags.matches
EntryMatcherTags_matches(m, e) ==
  IF m.tags = None \/ Val(m.tags) = {} THEN TRUE
  ELSE IF m.andor = SEARCH_OR
       THEN \E tag \in Val(m.tags) : tag = e.primary \/ tag \in e.tags
       ELSE \A tag \in Val(m.tags) : tag \in e.tags

\* ItemList.query_items with an EntryMatcherTags
CheatSheet_query_items(l, m) ==
  SelectSeq(l.items, LAMBDA e : EntryMatcherTags_matches(m, e))

\* CheatSheet.to_dict
CheatSheet_to_dict(l) ==
  [cheat_sheet |->
     [version       |-> l.version,
      modified_date |-> l.modified_date,
      entries       |-> [i \in 1..Len(l.items) |->
                           [oid     |-> l.items[i].oid,
                            primary |-> l.items[i].primary,
                            tags    |-> Sorted(l.items[i].tags),
                            clue    |-> l.items[i].clue,
                            answer  |-> l.items[i].answer]]]]

\* CheatSheet.from_dict
RECURSIVE LoadEntries(_, _, _)
LoadEntries(r, entries, i) ==
  IF r.err # NoError \/ i > Len(entries) THEN r
  ELSE LoadEntries(
         CheatSheet_add_item(r.l,
                             Entry(entries[i].clue, entries[i].answer, entries[i].primary,
                                   Range(entries[i].tags), entries[i].oid),
                             TRUE, 0),
         entries, i + 1)

CheatSheet_from_dict(json_dict) ==
  LET d == json_dict.cheat_sheet
  IN LoadEntries(Result(CheatSheet_init(DictGet(d, "version"), DictGet(d, "modified_date")),
                        NoError, None),
                 d.entries, 1)

\* sjb.cs.storage.Storage.load_list on the stored document
Storage_load_list(file) ==
  IF file = None
  THEN Result(CheatSheet_init(None, None), NoListFileError, None)
  ELSE CheatSheet_from_dict(Val(file))

\* sjb.cs.storage.Storage.save_list: the document that is stored
Storage_save_list(cs) == Some(CheatSheet_to_dict(cs))

\* ------------------------------------------------------------------- state
VARIABLES
  items,          \* TodoList.items: the todos, in insertion order
  next_oid,       \* ItemList's oid counter
  modified_date,  \* ItemList.modified_date
  version,        \* ItemList.version
  tag_set,        \* TodoList._tag_set
  now,            \* what time.time() returns
  issued,         \* history: the oids this list object has held
  last,           \* history: the last call and the exception it raised
  todo_file,      \* the stored todo list document
  ever_issued,    \* history: the oids fresh adds have issued, over all sessions
  cs_file,        \* the stored cheat sheet document, None when there is no file
  inv,            \* the command invocations in progress
  nsaves,         \* history: how many times cs_file has been written
  asked,          \* history: the questions put to the user, by invocation
  sheet,          \* a CheatSheet object
  found,          \* what the last query_items returned
  todo,           \* the Todo object a caller holds, None before it builds one
  recomputed      \* history: the last call on the list was an update_item that
                  \* ran _recompute_object_maps

listVars == <<items, next_oid, modified_date, version, tag_set>>
todoVars == <<items, next_oid, modified_date, version, tag_set, now, issued, last>>
sessionVars == <<todo_file, ever_issued>>
cliVars == <<cs_file, inv, nsaves, asked>>
sheetVars == <<sheet, found>>
vars == <<todoVars, sessionVars, cliVars, sheetVars, todo, recomputed>>

TheList ==
  [items |-> items, next_oid |-> next_oid, modified_date |-> modified_date,
   version |-> version, tag_set |-> tag_set]

Oids(l) == {Val(l.items[i].oid) : i \in 1..Len(l.items)}

\* The call's outcome r becomes the state.
Becomes(r) ==
  /\ items' = r.l.items
  /\ next_oid' = r.l.next_oid
  /\ modified_date' = r.l.modified_date
  /\ version' = r.l.version
  /\ tag_set' = r.l.tag_set

Call(op, r) == [op |-> op, err |-> r.err]

\* The todos a caller hands to add_item: new ones, as Todo(text, tags=tags)
\* builds them, and ones that carry what only a stored todo should (an oid, a
\* created_date, a finished state, a finished_date).
NewTodos ==
  {Todo("buy milk", None, tags, None, None, None, None) :
     tags \in {None, Some({"home", "work"})}}
  \cup
  {Todo("buy milk", None, Some({"home"}), None, None, None, Some(1)),
   Todo("buy milk", None, Some({"home"}), None, Some(1), None, None),
   Todo("buy milk", None, Some({"home"}), Some(TRUE), None, Some(1), None),
   Todo("buy milk", None, Some({"home"}), Some(TRUE), None, None, None),
   Todo("buy milk", None, Some({"home"}), None, None, Some(1), None)}

\* The (text, priority, tags) a caller hands to update_item.
UpdateArgs ==
  {<<None, None, None>>,
   <<Some("call bob"), Some(URGENT), None>>,
   <<None, None, Some({"work"})>>}

\* A session starts with TodoList() at some moment of the clock.
Init ==
  /\ items = TodoList_init(None, None).items
  /\ next_oid = TodoList_init(None, None).next_oid
  /\ modified_date = TodoList_init(None, None).modified_date
  /\ version = TodoList_init(None, None).version
  /\ tag_set = TodoList_init(None, None).tag_set
  /\ now = 1
  /\ issued = {}
  /\ last = [op |-> "TodoList", err |-> NoError]
  /\ todo_file = None
  /\ ever_issued = {}
  /\ cs_file = None
  /\ inv = <<>>
  /\ nsaves = 0
  /\ asked = {}
  /\ sheet = CheatSheet_init(None, None)
  /\ found = <<>>
  /\ todo = None
  /\ recomputed = FALSE

\* time passes between two calls
Tick ==
  /\ now < MaxClock
  /\ now' = now + 1
  /\ UNCHANGED <<items, next_oid, modified_date, version, tag_set, issued, last>>
  /\ UNCHANGED <<sessionVars, todo, recomputed, cliVars, sheetVars>>

\* The oids a caller names: those issued so far and one never issued.
OidArgs == 1..MaxOid + 1

\* l.add_item(item)
AddItem(item) ==
  /\ next_oid <= MaxOid
  /\ LET r == TodoList_add_item(TheList, item, FALSE, now)
     IN /\ Becomes(r)
        /\ issued' = issued \cup Oids(r.l)
        /\ last' = Call("add_item", r)
  /\ recomputed' = FALSE
  /\ UNCHANGED <<now, sessionVars, todo, cliVars, sheetVars>>

\* l.get_item(oid)
GetItem(oid) ==
  /\ LET r == ItemList_get_item(TheList, oid)
     IN /\ Becomes(r)
        /\ last' = Call("get_item", r)
  /\ recomputed' = FALSE
  /\ UNCHANGED <<now, issued, sessionVars, todo, cliVars, sheetVars>>

\* l.complete_item(oid, set_complete)
CompleteItem(oid, set_complete) ==
  /\ LET r == TodoList_complete_item(TheList, oid, set_complete, now)
     IN /\ Becomes(r)
        /\ last' = Call("complete_item", r)
  /\ recomputed' = FALSE
  /\ UNCHANGED <<now, issued, sessionVars, todo, cliVars, sheetVars>>

\* l.remove_item(oid)
RemoveItem(oid) ==
  /\ LET r == TodoList_remove_item(TheList, oid, now)
     IN /\ Becomes(r)
        /\ last' = Call("remove_item", r)
  /\ recomputed' = FALSE
  /\ UNCHANGED <<now, issued, sessionVars, todo, cliVars, sheetVars>>

\* l.update_item(oid, text, priority, tags)
UpdateItem(oid, text, priority, tags) ==
  /\ LET r == TodoList_update_item(TheList, oid, text, priority, tags, now)
     IN /\ Becomes(r)
        /\ last' = Call("update_item", r)
  /\ recomputed' = UpdateRecomputes(TheList, oid, text, priority, tags, now)
  /\ UNCHANGED <<now, issued, sessionVars, todo, cliVars, sheetVars>>

\* The session ends and the next one starts: the list is written with
\* to_dict and a new list is built from the document with from_dict.
Reload ==
  /\ LET r == TodoList_from_dict(TodoList_to_dict(TheList))
     IN /\ r.err = NoError
        /\ Becomes(r)
        /\ issued' = Oids(r.l)
        /\ last' = Call("from_dict", r)
  /\ recomputed' = FALSE
  /\ UNCHANGED <<now, sessionVars, todo, cliVars, sheetVars>>

Next ==
  \/ Tick
  \/ \E item \in NewTodos : AddItem(item)
  \/ \E oid \in OidArgs : GetItem(oid)
  \/ \E oid \in OidArgs, set_complete \in BOOLEAN : CompleteItem(oid, set_complete)
  \/ \E oid \in OidArgs : RemoveItem(oid)
  \/ \E oid \in OidArgs, u \in UpdateArgs : UpdateItem(oid, u[1], u[2], u[3])
  \/ Reload

Spec == Init /\ [][Next]_vars

\* ------------------------------------------------------------------ claims
Unset(o) == o = None
IsSet(o) == o # None

\* The list the step ends in.
TheListNext ==
  [items |-> items', next_oid |-> next_oid', modified_date |-> modified_date',
   version |-> version', tag_set |-> tag_set']

C2_FreshAdd ==
  [][\A item \in NewTodos :
       (AddItem(item) /\ last'.err = NoError) =>
         LET ret == items'[Len(items')]
         IN /\ Len(items') = Len(items) + 1
            /\ \A o \in issued : Val(ret.oid) > o
            /\ ret.created_date = Some(now)
            /\ ret.finished = FALSE
            /\ Unset(ret.finished_date)]_vars

\* C3: every todo of the list is finished if and only if its finished_date
\* is set.
C3_FinishedIffDate ==
  \A i \in 1..Len(items) : items[i].finished <=> IsSet(items[i].finished_date)

\* C4: tag_set is the union of the tags of the items in the list.
C4_TagSet ==
  tag_set = UNION {items[i].tags : i \in 1..Len(items)}

\* C5: add_item (initial_load false) of an item that has an oid, a
\* created_date or is finished raises IllegalStateError and leaves the list's
\* items, next_oid, modified_date and tag_set as they were.
C5_RejectedAddAtomic ==
  [][\A item \in NewTodos :
       (AddItem(item) /\ (IsSet(item.oid) \/ IsSet(item.created_date) \/ item.finished)) =>
         /\ last'.err = IllegalStateError
         /\ UNCHANGED <<items, next_oid, modified_date, tag_set>>]_vars

\* The item of the list carrying oid.
ItemOf(oid) == Val(ItemList_get_item(TheList, oid).ret)

\* C6: complete_item(oid, True) on a finished todo and complete_item(oid,
\* False) on a todo that is not finished raise IllegalStateError and leave the
\* todo's finished and finished_date and the list's modified_date as they
\* were; a complete_item(oid, True) that follows a successful one fails.
C6_CompleteTwice ==
  [][\A oid \in OidArgs, set_complete \in BOOLEAN :
       CompleteItem(oid, set_complete) =>
         /\ (oid \in Oids(TheList) /\ ItemOf(oid).finished = set_complete) =>
              /\ last'.err = IllegalStateError
              /\ UNCHANGED <<items, modified_date>>
         /\ (set_complete /\ last'.err = NoError) =>
              TodoList_complete_item(TheListNext, oid, TRUE, now').err = IllegalStateError]_vars

\* complete_item has raised IllegalStateError on a list holding a finished
\* todo, at a time later than the list's modified_date.
C6_Witness ==
  /\ last = [op |-> "complete_item", err |-> IllegalStateError]
  /\ \E i \in 1..Len(items) : items[i].finished /\ IsSet(items[i].finished_date)
  /\ modified_date # Some(now)

\* C7: get_item, remove_item, update_item and complete_item of an oid that no
\* item of the list carries raise InvalidIDError and leave the list's items,
\* next_oid, modified_date and tag_set as they were.
C7_InvalidID ==
  [][\A oid \in OidArgs \ Oids(TheList) :
       (\/ GetItem(oid)
        \/ RemoveItem(oid)
        \/ \E u \in UpdateArgs : UpdateItem(oid, u[1], u[2], u[3])
        \/ \E set_complete \in BOOLEAN : CompleteItem(oid, set_complete)) =>
         /\ last'.err = InvalidIDError
         /\ UNCHANGED <<items, next_oid, modified_date, tag_set>>]_vars

\* update_item has raised InvalidIDError on a list that holds an item and has
\* removed another, at a time later than the list's modified_date.
C7_Witness ==
  /\ last = [op |-> "update_item", err |-> InvalidIDError]
  /\ Len(items) >= 1
  /\ issued \ Oids(TheList) # {}
  /\ modified_date # Some(now)

\* C8: for a list that holds an item, from_dict(to_dict(list)) has the same
\* items, field for field and in the same order, and the same tag_set.
C8_RoundTrip ==
  Len(items) >= 1 =>
    LET r == TodoList_from_dict(TodoList_to_dict(TheList))
    IN /\ r.err = NoError
       /\ Len(r.l.items) = Len(items)
       /\ \A i \in 1..Len(items) : TodoEq(r.l.items[i], items[i])
       /\ r.l.tag_set = tag_set

\* C11: update_item(oid, text, priority, tags) overwrites those of text,
\* priority and tags whose argument is not None and nothing else: the other
\* fields of the item, its place in the list, next_oid and the other items
\* stay as they were.
C11_UpdateFrame ==
  [][\A oid \in OidArgs, u \in UpdateArgs :
       (last'.op = "update_item" /\ UpdateItem(oid, u[1], u[2], u[3])) =>
         /\ next_oid' = next_oid
         /\ Len(items') = Len(items)
         /\ \A i \in 1..Len(items) :
              IF items[i].oid = Some(oid)
              THEN /\ items'[i].text =
                        (IF u[1] # None THEN Val(u[1]) ELSE items[i].text)
                   /\ items'[i].priority =
                        (IF u[2] # None THEN Val(u[2]) ELSE items[i].priority)
                   /\ items'[i].tags =
                        (IF u[3] # None THEN Val(u[3]) ELSE items[i].tags)
                   /\ items'[i].oid = items[i].oid
                   /\ items'[i].finished = items[i].finished
                   /\ items'[i].created_date = items[i].created_date
                   /\ items'[i].finished_date = items[i].finished_date
              ELSE items'[i] = items[i]]_vars

\* update_item has given the first of two todos a new text and priority; the
\* todo is finished and keeps its tags, the second todo keeps its text.
C11_Witness ==
  /\ last = [op |-> "update_item", err |-> NoError]
  /\ Len(items) = 2
  /\ items[1].text = "call bob"
  /\ items[1].priority = URGENT
  /\ items[1].tags = {"home", "work"}
  /\ items[1].finished
  /\ items[2].text = "buy milk"

\* C12: a successful update_item sets modified_date to the time of the call
\* if an argument that is not None differs from the item's field, and leaves
\* modified_date as it was otherwise.
C12_ModifiedIffChanged ==
  [][\A oid \in OidArgs, u \in UpdateArgs :
       (last' = [op |-> "update_item", err |-> NoError]
          /\ UpdateItem(oid, u[1], u[2], u[3])) =>
         LET changed == \/ u[1] # None /\ Val(u[1]) # ItemOf(oid).text
                        \/ u[2] # None /\ Val(u[2]) # ItemOf(oid).priority
                        \/ u[3] # None /\ Val(u[3]) # ItemOf(oid).tags
         IN IF changed
            THEN modified_date' = Some(now)
            ELSE modified_date' = modified_date]_vars

\* An update_item that changed nothing has returned at a time later than the
\* list's modified_date, on a list holding a todo an earlier update changed.
C12_Witness ==
  /\ last = [op |-> "update_item", err |-> NoError]
  /\ IsSet(modified_date)
  /\ modified_date # Some(now)
  /\ \E i \in 1..Len(items) : items[i].text = "call bob"

\* C13: every call that returns and has changed the list's items (a fresh
\* add_item, a remove_item, a changing update_item, complete_item(oid, True)
\* and complete_item(oid, False)) sets modified_date to the time of the call.
C13_ChangeMarksModified ==
  [][(last'.err = NoError /\ items' # items) => modified_date' = Some(now)]_vars

\* C14: a successful complete_item(oid, True) sets finished and sets
\* finished_date and modified_date to the time of the call; a successful
\* complete_item(oid, False) clears finished and finished_date and leaves
\* modified_date as it was.
C14_CompleteEffect ==
  [][\A oid \in OidArgs, set_complete \in BOOLEAN :
       (last' = [op |-> "complete_item", err |-> NoError]
          /\ CompleteItem(oid, set_complete)) =>
         LET after == Val(ItemList_get_item(TheListNext, oid).ret)
         IN IF set_complete
            THEN /\ after.finished = TRUE
                 /\ after.finished_date = Some(now)
                 /\ modified_date' = Some(now)
            ELSE /\ after.finished = FALSE
                 /\ Unset(after.finished_date)
                 /\ modified_date' = modified_date]_vars

\* complete_item(oid, False) has returned at a time later than the list's
\* modified_date: the list holds a todo that is not finished.
C14_Witness ==
  /\ last = [op |-> "complete_item", err |-> NoError]
  /\ IsSet(modified_date)
  /\ modified_date # Some(now)
  /\ \E i \in 1..Len(items) : ~items[i].finished /\ Unset(items[i].finished_date)

\* ---------------------------------------------------------------- sessions
\* A session of the todo program loads the stored document with from_dict,
\* performs one operation and, when the operation raised nothing, writes the
\* list back with to_dict.
SessionLoad == TodoList_from_dict(Val(todo_file))

\* The session ends with the outcome r of its operation.
SessionEnd(op, r) ==
  /\ Becomes(r)
  /\ issued' = Oids(r.l)
  /\ last' = Call(op, r)
  /\ todo_file' = IF r.err = NoError THEN Some(TodoList_to_dict(r.l)) ELSE todo_file
  /\ UNCHANGED <<now, cliVars, todo, sheetVars>>

\* The first session finds the document of an empty list.
SessionInit ==
  /\ items = <<>>
  /\ next_oid = 1
  /\ modified_date = None
  /\ version = None
  /\ tag_set = {}
  /\ now = 1
  /\ issued = {}
  /\ last = [op |-> "TodoList", err |-> NoError]
  /\ todo_file = Some(TodoList_to_dict(TodoList_init(None, None)))
  /\ ever_issued = {}
  /\ cs_file = None
  /\ inv = <<>>
  /\ nsaves = 0
  /\ asked = {}
  /\ sheet = CheatSheet_init(None, None)
  /\ found = <<>>
  /\ todo = None
  /\ recomputed = FALSE

SessionTick ==
  /\ now < MaxClock
  /\ now' = now + 1
  /\ UNCHANGED <<items, next_oid, modified_date, version, tag_set, issued, last>>
  /\ UNCHANGED <<sessionVars, todo, recomputed, cliVars, sheetVars>>

SessionAdd(item) ==
  /\ SessionLoad.l.next_oid <= MaxOid
  /\ LET r == TodoList_add_item(SessionLoad.l, item, FALSE, now)
     IN /\ SessionEnd("add_item", r)
        /\ ever_issued' = IF r.err = NoError
                          THEN ever_issued \cup {Val(Val(r.ret).oid)}
                          ELSE ever_issued
  /\ recomputed' = FALSE

SessionRemove(oid) ==
  /\ SessionEnd("remove_item", TodoList_remove_item(SessionLoad.l, oid, now))
  /\ recomputed' = FALSE
  /\ UNCHANGED ever_issued

SessionComplete(oid, set_complete) ==
  /\ SessionEnd("complete_item",
                TodoList_complete_item(SessionLoad.l, oid, set_complete, now))
  /\ recomputed' = FALSE
  /\ UNCHANGED ever_issued

SessionUpdate(oid, text, priority, tags) ==
  /\ SessionEnd("update_item",
                TodoList_update_item(SessionLoad.l, oid, text, priority, tags, now))
  /\ recomputed' = UpdateRecomputes(SessionLoad.l, oid, text, priority, tags, now)
  /\ UNCHANGED ever_issued

SessionNext ==
  \/ SessionTick
  \/ \E item \in NewTodos : SessionAdd(item)
  \/ \E oid \in OidArgs : SessionRemove(oid)
  \/ \E oid \in OidArgs, set_complete \in BOOLEAN : SessionComplete(oid, set_complete)
  \/ \E oid \in OidArgs, u \in UpdateArgs : SessionUpdate(oid, u[1], u[2], u[3])

SessionSpec == SessionInit /\ [][SessionNext]_vars

\* C9: over successive sessions on one stored list, an item added in a later
\* session never receives an oid that an earlier session issued.
C9_NeverReissued ==
  [][\A item \in NewTodos :
       (SessionAdd(item) /\ last'.err = NoError) =>
         Val(items'[Len(items')].oid) \notin ever_issued]_vars

\* ------------------------------------------------------------------ loading
\* The todos of a stored document: two that add_item and complete_item wrote
\* and one without an oid.
StoredTodos ==
  {Todo_to_dict(Todo("buy milk", Some(DEFAULT), Some({"home"}), Some(FALSE),
                     Some(1), None, Some(1))),
   Todo_to_dict(Todo("call bob", Some(URGENT), Some({"home", "work"}), Some(TRUE),
                     Some(1), Some(2), Some(2))),
   Todo_to_dict(Todo("buy milk", Some(DEFAULT), Some({"work"}), Some(FALSE),
                     Some(1), None, None))}

\* The documents from_dict is given: up to MaxTodos stored todos with
\* different oids, with and without the keys version and modified_date.
Documents ==
  LET seqs == {s \in UNION {[1..n -> StoredTodos] : n \in 0..MaxTodos} :
                 \A i, j \in 1..Len(s) : i # j => s[i].oid # s[j].oid}
      versions == {None, Some("0.1")}
      dates == {None, Some(1), Some(2)}
  IN {[todo_list |-> [todos |-> s]] : s \in seqs}
     \cup {[todo_list |-> [todos |-> s, version |-> v]] : s \in seqs, v \in versions}
     \cup {[todo_list |-> [todos |-> s, modified_date |-> m]] : s \in seqs, m \in dates}
     \cup {[todo_list |-> [todos |-> s, version |-> v, modified_date |-> m]] :
             s \in seqs, v \in versions, m \in dates}

\* l = TodoList.from_dict(doc) of the stored document; an exception leaves
\* the caller without a list.
LoadDocument ==
  /\ LET r == TodoList_from_dict(Val(todo_file))
     IN /\ IF r.err = NoError
           THEN Becomes(r) /\ issued' = Oids(r.l)
           ELSE UNCHANGED <<items, next_oid, modified_date, version, tag_set, issued>>
        /\ last' = Call("from_dict", r)
  /\ recomputed' = FALSE
  /\ UNCHANGED <<now, sessionVars, todo, cliVars, sheetVars>>

\* l.add_item(Todo.from_dict(d), initial_load=True)
AddLoaded(d) ==
  /\ Len(items) < MaxTodos
  /\ LET r == TodoList_add_item(TheList, Todo_from_dict(d), TRUE, now)
     IN /\ Becomes(r)
        /\ issued' = issued \cup Oids(r.l)
        /\ last' = Call("add_item", r)
  /\ recomputed' = FALSE
  /\ UNCHANGED <<now, sessionVars, todo, cliVars, sheetVars>>

\* A session finds one of the documents stored.
LoadInit ==
  /\ items = <<>>
  /\ next_oid = 1
  /\ modified_date = None
  /\ version = None
  /\ tag_set = {}
  /\ now = 1
  /\ issued = {}
  /\ last = [op |-> "TodoList", err |-> NoError]
  /\ todo_file \in {Some(doc) : doc \in Documents}
  /\ ever_issued = {}
  /\ cs_file = None
  /\ inv = <<>>
  /\ nsaves = 0
  /\ asked = {}
  /\ sheet = CheatSheet_init(None, None)
  /\ found = <<>>
  /\ todo = None
  /\ recomputed = FALSE

LoadNext ==
  \/ Tick
  \/ LoadDocument
  \/ \E d \in StoredTodos : AddLoaded(d)

LoadSpec == LoadInit /\ [][LoadNext]_vars

\* C15: from_dict gives a list whose modified_date and version are the
\* document's (None when the key is missing) and which holds all the
\* document's todos; an add_item with initial_load true leaves modified_date
\* as it was.
C15_LoadKeepsModified ==
  [][/\ (LoadDocument /\ last'.err = NoError) =>
          LET doc == Val(todo_file).todo_list
          IN /\ modified_date' = (IF "modified_date" \in DOMAIN doc
                                  THEN doc.modified_date ELSE None)
             /\ version' = (IF "version" \in DOMAIN doc THEN doc.version ELSE None)
             /\ Len(items') = Len(doc.todos)
     /\ \A d \in StoredTodos : AddLoaded(d) => UNCHANGED <<modified_date, version>>]_vars

\* from_dict has loaded two todos at time 2 from a document of version 0.1
\* that has no key modified_date.
C15_Witness ==
  /\ last = [op |-> "from_dict", err |-> NoError]
  /\ Len(items) = 2
  /\ version = Some("0.1")
  /\ "modified_date" \notin DOMAIN Val(todo_file).todo_list
  /\ Unset(modified_date)
  /\ now = 2

\* ------------------------------------------------------------------ queries
\* The matchers a caller builds.
Matchers ==
  {TodoMatcher(tags, priority, finished) :
     tags \in {None, Some({}), Some({"home"}), Some({"home", "work"})},
     priority \in {None, Some(URGENT)},
     finished \in {None, Some(TRUE), Some(FALSE)}}

\* l.query_items(m)
QueryItems(m) ==
  /\ found' = TodoList_query_items(TheList, m)
  /\ last' = [op |-> "query_items", err |-> NoError]
  /\ UNCHANGED <<items, next_oid, modified_date, version, tag_set, now, issued>>
  /\ recomputed' = FALSE
  /\ UNCHANGED <<sessionVars, todo, cliVars, sheet>>

\* The list is built from the todos of a stored document.
QueryNext ==
  \/ \E d \in StoredTodos : AddLoaded(d)
  \/ \E oid \in OidArgs, set_complete \in BOOLEAN : CompleteItem(oid, set_complete)
  \/ \E m \in Matchers : QueryItems(m)

QuerySpec == Init /\ [][QueryNext]_vars

\* The todo meets every criterion of the matcher that is not None.
Satisfies(m, item) ==
  /\ IsSet(m.tags) => Val(m.tags) \subseteq item.tags
  /\ IsSet(m.priority) => item.priority = Val(m.priority)
  /\ IsSet(m.finished) => item.finished = Val(m.finished)

\* C16: query_items(TodoMatcher(tags, priority, finished)) returns the todos
\* of the list that meet every criterion that is not None, each once and in
\* the order of the list; without criteria these are all the todos.
C16_QueryItems ==
  [][\A m \in Matchers :
       QueryItems(m) =>
         LET hits == {j \in 1..Len(items) : Satisfies(m, items[j])}
         IN /\ Len(found') = Cardinality(hits)
            /\ \A i \in 1..Len(found') : \E j \in hits : found'[i] = items[j]
            /\ \A i, k \in 1..Len(found') :
                 i < k => \E j, n \in hits :
                            j < n /\ found'[i] = items[j] /\ found'[k] = items[n]
            /\ (Unset(m.tags) /\ Unset(m.priority) /\ Unset(m.finished)) =>
                 found' = items]_vars

\* query_items has returned the second of two todos, a finished one of
\* default priority, and not the first, an urgent one.
C16_Witness ==
  /\ last = [op |-> "query_items", err |-> NoError]
  /\ Len(items) = 2
  /\ Len(found) = 1
  /\ found[1] = items[2]
  /\ items[1].priority = URGENT
  /\ items[1].tags = {"home", "work"}
  /\ items[2].priority = DEFAULT
  /\ items[2].finished

\* --------------------------------------------------------------- validation
\* The todos a caller builds with Todo(text, priority=priority, tags=tags):
\* well-formed ones, ones with an empty text, a priority outside PriorityEnum
\* or an empty tag, and one built as finished without a finished_date.
BuiltTodos ==
  {Todo("buy milk", None, None, None, None, None, None),
   Todo("buy milk", Some(URGENT), Some({"home"}), None, None, None, None),
   Todo("", None, None, None, None, None, None),
   Todo("buy milk", Some(4), None, None, None, None, None),
   Todo("buy milk", None, Some({"", "home"}), None, None, None, None),
   Todo("buy milk", None, None, Some(TRUE), None, None, None)}

\* todo = Todo(...)
NewTodo(item) ==
  /\ todo' = Some(item)
  /\ last' = [op |-> "Todo", err |-> NoError]
  /\ UNCHANGED <<items, next_oid, modified_date, version, tag_set, now, issued>>
  /\ UNCHANGED <<sessionVars, cliVars, sheetVars, recomputed>>

\* todo._validate()
ValidateTodo ==
  /\ todo # None
  /\ last' = [op |-> "_validate", err |-> Todo_validate(Val(todo))]
  /\ UNCHANGED <<items, next_oid, modified_date, version, tag_set, now, issued>>
  /\ UNCHANGED <<sessionVars, cliVars, sheetVars, todo, recomputed>>

\* l.add_item(todo): the list stores the object the caller holds, so the
\* caller sees what add_item assigned to it, also when add_item raised after
\* ItemList.add_item had appended it.
AddTodo ==
  /\ todo # None
  /\ next_oid <= MaxOid
  /\ LET r == TodoList_add_item(TheList, Val(todo), FALSE, now)
     IN /\ Becomes(r)
        /\ issued' = issued \cup Oids(r.l)
        /\ last' = Call("add_item", r)
        /\ todo' = IF Len(r.l.items) > Len(items)
                   THEN Some(r.l.items[Len(r.l.items)])
                   ELSE todo
  /\ recomputed' = FALSE
  /\ UNCHANGED <<now, sessionVars, cliVars, sheetVars>>

\* l.complete_item(todo.oid, set_complete)
CompleteTodo(set_complete) ==
  /\ todo # None
  /\ Val(todo).oid # None
  /\ LET r == TodoList_complete_item(TheList, Val(Val(todo).oid), set_complete, now)
     IN /\ Becomes(r)
        /\ last' = Call("complete_item", r)
        /\ todo' = IF r.err = NoError THEN r.ret ELSE todo
  /\ recomputed' = FALSE
  /\ UNCHANGED <<now, issued, sessionVars, cliVars, sheetVars>>

ValidNext ==
  \/ Tick
  \/ \E item \in BuiltTodos : NewTodo(item)
  \/ ValidateTodo
  \/ AddTodo
  \/ \E set_complete \in BOOLEAN : CompleteTodo(set_complete)

ValidSpec == Init /\ [][ValidNext]_vars

\* A field of t violates its constraint: the text is empty, the priority is
\* not one of 1, 2, 3, a tag is empty, finished and finished_date disagree, or
\* t has been added (its oid is set) and has no created_date.
FieldViolated(t) ==
  \/ t.text = ""
  \/ t.priority \notin {1, 2, 3}
  \/ "" \in t.tags
  \/ t.finished # (t.finished_date # None)
  \/ t.oid # None /\ t.created_date = None

\* C21: when _validate has just returned for the todo the caller holds (one
\* just constructed, one add_item has stored, or one complete_item has
\* changed), it raised ValidationError if and only if a field of the todo
\* violates its constraint; a well-formed todo passes in each of these states.
C21_ValidateContract ==
  (todo # None /\ last.op = "_validate") =>
    /\ last.err \in {NoError, ValidationError}
    /\ last.err = ValidationError <=> FieldViolated(Val(todo))

\* ------------------------------------------------------------------ updates
\* The (text, priority, tags) update_item is given on a loaded list: nothing,
\* one field, or all three.  The second stored todo has these values already,
\* the first has none of them.
FieldUpdates ==
  {<<None, None, None>>,
   <<Some("call bob"), None, None>>,
   <<None, Some(URGENT), None>>,
   <<None, None, Some({"home", "work"})>>,
   <<Some("call bob"), Some(URGENT), Some({"home", "work"})>>}

UpdateNext ==
  \/ Tick
  \/ \E d \in StoredTodos : AddLoaded(d)
  \/ \E oid \in OidArgs, u \in FieldUpdates : UpdateItem(oid, u[1], u[2], u[3])

UpdateSpec == Init /\ [][UpdateNext]_vars

\* The tags of some todo of the list differ before and after the step.
TagsChanged ==
  \E i \in 1..Len(items) : items'[i].tags # items[i].tags

\* C22 as stated: an update_item that ran the recomputation of tag_set has
\* changed the tags of a todo; one that changed only text or priority, or set
\* the tags a todo has, ran none.
C22_RecomputeOnlyOnTagChange ==
  [][\A oid \in OidArgs, u \in FieldUpdates :
       (last'.op = "update_item" /\ UpdateItem(oid, u[1], u[2], u[3])) =>
         (recomputed' => TagsChanged)]_vars

\* C22, amended: update_item runs the recomputation of tag_set exactly when it
\* returns and has changed the todo's text, priority or tags; an update that
\* names no field, sets every field it names to the value the todo has, or
\* raises InvalidIDError runs none.
C22_RecomputeIffChanged ==
  [][\A oid \in OidArgs, u \in FieldUpdates :
       (last'.op = "update_item" /\ UpdateItem(oid, u[1], u[2], u[3])) =>
         (recomputed' <=> (last'.err = NoError /\ items' # items))]_vars

\* An update_item that ran the recomputation has returned on a list whose one
\* todo has a new text and the priority and tags it was stored with.
C22_Witness ==
  /\ last = [op |-> "update_item", err |-> NoError]
  /\ recomputed
  /\ Len(items) = 1
  /\ items[1].text = "call bob"
  /\ items[1].priority = DEFAULT
  /\ items[1].tags = {"home"}

\* -------------------------------------------------------- a CheatSheet object
\* The entries a caller hands to add_item.
NewEntries ==
  {Entry("ls -la", "list all files", primary, tags, None) :
     primary \in {"bash", "home"}, tags \in {{}, {"shell"}, {"shell", "work"}}}

\* The (clue, answer, primary, tags) a caller hands to update_item.
EntryUpdates ==
  {<<None, None, None, None>>,
   <<Some("pwd"), None, None, None>>,
   <<None, None, Some("home"), Some({"work"})>>,
   <<None, None, None, Some({})>>}

\* The call's outcome is recorded; the todo list is not involved.
SheetDone(op, r) ==
  /\ last' = Call(op, r)
  /\ UNCHANGED <<items, next_oid, modified_date, version, tag_set, now, issued>>
  /\ UNCHANGED <<sessionVars, todo, recomputed, cliVars, found>>

\* sheet.add_item(entry)
SheetAdd(entry) ==
  /\ sheet.next_oid <= MaxOid
  /\ LET r == CheatSheet_add_item(sheet, entry, FALSE, now)
     IN /\ sheet' = r.l
        /\ SheetDone("add_item", r)

\* sheet.remove_item(oid)
SheetRemove(oid) ==
  LET r == CheatSheet_remove_item(sheet, oid, now)
  IN /\ sheet' = r.l
     /\ SheetDone("remove_item", r)

\* sheet.update_item(oid, clue, answer, primary, tags)
SheetUpdate(oid, clue, answer, primary, tags) ==
  LET r == CheatSheet_update_item(sheet, oid, clue, answer, primary, tags, now)
  IN /\ sheet' = r.l
     /\ SheetDone("update_item", r)

SheetNext ==
  \/ \E entry \in NewEntries : SheetAdd(entry)
  \/ \E oid \in OidArgs : SheetRemove(oid)
  \/ \E oid \in OidArgs, u \in EntryUpdates : SheetUpdate(oid, u[1], u[2], u[3], u[4])

SheetSpec == Init /\ [][SheetNext]_vars

\* C18: primary_map has exactly the primary tags of the sheet's entries as
\* keys and maps each to the entries with that primary, in the order of the
\* sheet; tag_set is the union of the entries' tags.  A sheet without entries
\* has both empty.
C18_SheetMaps ==
  /\ DOMAIN sheet.primary_map = {sheet.items[i].primary : i \in 1..Len(sheet.items)}
  /\ \A k \in DOMAIN sheet.primary_map :
       sheet.primary_map[k] = SelectSeq(sheet.items, LAMBDA e : e.primary = k)
  /\ sheet.tag_set = UNION {sheet.items[i].tags : i \in 1..Len(sheet.items)}

\* The entry with oid 1 (primary bash, tags {shell}) was added to an empty
\* sheet and removed again: the sheet has no entry, no key and no tag.
C18_Witness ==
  /\ last = [op |-> "remove_item", err |-> NoError]
  /\ sheet.items = <<>>
  /\ sheet.next_oid = 2
  /\ DOMAIN sheet.primary_map = {}
  /\ sheet.tag_set = {}

\* ------------------------------------------------- cheat sheet command line
PROMPT == 1
FORCE == 0

Invocations == 1..NumInv

\* The clue each invocation's command carries.
Clues == <<"cd", "ls", "mv", "rm">>
ClueOf(p) == Clues[p]

\* The command lines: add <tags> <clue> <answer> and update <id> --clue
\* [--tags], each with -f or -i.
Commands(p) ==
  {[cmd |-> "add", prompt |-> prompt, tags |-> tags, clue |-> ClueOf(p),
    answer |-> "answer"] :
     prompt \in {FORCE, PROMPT}, tags \in {<<"bash", {}>>, <<"bash", {"shell"}>>}}
  \cup
  {[cmd |-> "update", prompt |-> prompt, oid |-> oid, tags |-> tags,
    clue |-> Some(ClueOf(p)), answer |-> None] :
     prompt \in {FORCE, PROMPT}, oid \in 1..2, tags \in {None, Some(<<"home", {"work"}>>)}}

\* A cheat sheet file an earlier add has written.
StoredSheet ==
  Storage_save_list(
    CheatSheet_add_item(CheatSheet_init(None, None),
                        Entry("pwd", "answer", "bash", {"shell"}, None), FALSE, 1).l)

\* An invocation that has not started yet.
Started(args) ==
  [args |-> args, pc |-> "start", cs |-> CheatSheet_init(None, None),
   skip_tag_prompt |-> FALSE, at_load |-> 0, saved |-> 0, exit |-> ""]

CliInit ==
  /\ items = <<>>
  /\ next_oid = 1
  /\ modified_date = None
  /\ version = None
  /\ tag_set = {}
  /\ now = 1
  /\ issued = {}
  /\ last = [op |-> "TodoList", err |-> NoError]
  /\ todo_file = None
  /\ ever_issued = {}
  /\ cs_file \in {None, StoredSheet}
  /\ inv \in {f \in [Invocations -> UNION {{Started(a) : a \in Commands(p)} : p \in Invocations}] :
                \A p \in Invocations : f[p].args \in Commands(p)}
  /\ nsaves = 0
  /\ asked = {}
  /\ sheet = CheatSheet_init(None, None)
  /\ found = <<>>
  /\ todo = None
  /\ recomputed = FALSE

\* The invocation ends without writing: exit(0) or an exception.
Exits(p, how) == inv' = [inv EXCEPT ![p].pc = "done", ![p].exit = how]

\* The invocation writes its sheet and ends.
Saves(p, cs) ==
  /\ cs_file' = Storage_save_list(cs)
  /\ nsaves' = nsaves + 1
  /\ inv' = [inv EXCEPT ![p].pc = "done", ![p].cs = cs, ![p].saved = nsaves + 1,
                        ![p].exit = "saved"]

\* Program.add up to the loaded sheet.
ProgramAddLoad(p) ==
  /\ inv[p].pc = "start"
  /\ inv[p].args.cmd = "add"
  /\ LET loaded == Storage_load_list(cs_file)
     IN IF loaded.err = NoListFileError
        THEN \E answer \in BOOLEAN :
               LET cont == (inv[p].args.prompt = FORCE) \/ answer
               IN /\ asked' = IF inv[p].args.prompt = FORCE THEN asked
                              ELSE asked \cup {<<p, "create list">>}
                  /\ IF ~cont
                     THEN Exits(p, "exit(0)")
                     ELSE inv' = [inv EXCEPT ![p].pc = "loaded",
                                             ![p].cs = CheatSheet_init(None, None),
                                             ![p].skip_tag_prompt = TRUE,
                                             ![p].at_load = nsaves]
        ELSE /\ inv' = [inv EXCEPT ![p].pc = "loaded",
                                   ![p].cs = loaded.l,
                                   ![p].skip_tag_prompt = (inv[p].args.prompt = FORCE),
                                   ![p].at_load = nsaves]
             /\ UNCHANGED asked
  /\ UNCHANGED <<todoVars, sessionVars, todo, recomputed, sheetVars, cs_file, nsaves>>

\* The rest of Program.add on the sheet cs: the tag prompt, add_item, save_list.
AddAndSave(p, cs) ==
  LET args == inv[p].args
      entry == Entry(args.clue, args.answer, args.tags[1], args.tags[2], None)
      new_elts == args.tags[2] \ cs.tag_set
      asks == new_elts # {} /\ ~inv[p].skip_tag_prompt
  IN /\ asked' = IF asks THEN asked \cup {<<p, "new tags">>} ELSE asked
     /\ \E answer \in BOOLEAN :
          IF asks /\ ~answer
          THEN Exits(p, "exit(0)") /\ UNCHANGED <<cs_file, nsaves>>
          ELSE Saves(p, CheatSheet_add_item(cs, entry, FALSE, now).l)

\* Program.add reading the file again before it adds and saves.
ProgramAddFinish_Reload(p) ==
  /\ inv[p].pc = "loaded"
  /\ inv[p].args.cmd = "add"
  /\ AddAndSave(p, IF cs_file = None THEN inv[p].cs ELSE Storage_load_list(cs_file).l)
  /\ UNCHANGED <<todoVars, sessionVars, todo, recomputed, sheetVars>>

\* Program.add from the loaded sheet on.
ProgramAddFinish(p) ==
  /\ inv[p].pc = "loaded"
  /\ inv[p].args.cmd = "add"
  /\ AddAndSave(p, inv[p].cs)
  /\ UNCHANGED <<todoVars, sessionVars, todo, recomputed, sheetVars>>

\* Program.update up to the item it looked up.
ProgramUpdateLoad(p) ==
  /\ inv[p].pc = "start"
  /\ inv[p].args.cmd = "update"
  /\ LET loaded == Storage_load_list(cs_file)
     IN IF loaded.err # NoError
        THEN Exits(p, loaded.err)
        ELSE LET item == ItemList_get_item(loaded.l, inv[p].args.oid)
             IN IF item.err # NoError
                THEN Exits(p, item.err)
                ELSE inv' = [inv EXCEPT ![p].pc = "loaded", ![p].cs = loaded.l,
                                        ![p].at_load = nsaves]
  /\ UNCHANGED <<todoVars, sessionVars, todo, recomputed, sheetVars, cs_file, nsaves, asked>>

\* Program.update from the prompt on: update_item, save_list.
ProgramUpdateFinish(p) ==
  /\ inv[p].pc = "loaded"
  /\ inv[p].args.cmd = "update"
  /\ asked' = IF inv[p].args.prompt # FORCE THEN asked \cup {<<p, "update">>} ELSE asked
  /\ LET args == inv[p].args
     IN \E answer \in BOOLEAN :
          IF args.prompt # FORCE /\ ~answer
          THEN Exits(p, "exit(0)") /\ UNCHANGED <<cs_file, nsaves>>
          ELSE Saves(p, CheatSheet_update_item(
                          inv[p].cs, args.oid, args.clue, args.answer,
                          IF args.tags # None THEN Some(Val(args.tags)[1]) ELSE None,
                          IF args.tags # None THEN Some(Val(args.tags)[2]) ELSE None,
                          now).l)
  /\ UNCHANGED <<todoVars, sessionVars, todo, recomputed, sheetVars>>

CliNext ==
  \E p \in Invocations :
    \/ ProgramAddLoad(p)
    \/ ProgramAddFinish(p)
    \/ ProgramUpdateLoad(p)
    \/ ProgramUpdateFinish(p)

CliSpec == CliInit /\ [][CliNext]_vars

\* Every invocation has ended.
AllDone == \A p \in Invocations : inv[p].pc = "done"

\* The stored document holds the change of invocation p.
HasChange(p) ==
  /\ cs_file # None
  /\ \E i \in 1..Len(Val(cs_file).cheat_sheet.entries) :
       Val(cs_file).cheat_sheet.entries[i].clue = ClueOf(p)

\* C10: when all invocations have ended, the stored document is the one the
\* invocation that saved last wrote: it holds that invocation's change, and it
\* holds no change of an invocation that saved after the last saver loaded.
C10_LastWriterWins ==
  AllDone =>
    \A p \in Invocations :
      (nsaves > 0 /\ inv[p].saved = nsaves) =>
        /\ cs_file = Storage_save_list(inv[p].cs)
        /\ HasChange(p)
        /\ \A q \in Invocations \ {p} :
             inv[p].at_load < inv[q].saved => ~HasChange(q)

\* Two invocations have saved, and the one that saved last had loaded before
\* the other saved.
C10_Witness ==
  /\ AllDone
  /\ \E p, q \in Invocations :
       /\ p # q
       /\ inv[q].saved = 1
       /\ inv[p].saved = 2
       /\ nsaves = 2
       /\ inv[p].at_load = 0
       /\ inv[p].args.cmd = "add"
       /\ inv[q].args.cmd = "update"

\* ------------------------------------------- one command after the other
\* The command lines of one user: those of Commands and add with a primary
\* tag of its own, remove <id> with -f or -i, info, lists and show with
\* --tags and --or or --and.
AllCommands ==
  Commands(1)
  \cup
  {[cmd |-> "add", prompt |-> PROMPT, tags |-> <<"home", {"shell"}>>,
    clue |-> ClueOf(1), answer |-> "answer"]}
  \cup
  {[cmd |-> "remove", prompt |-> prompt, oid |-> oid] :
     prompt \in {FORCE, PROMPT}, oid \in 1..2}
  \cup
  {[cmd |-> "info"], [cmd |-> "lists"]}
  \cup
  {[cmd |-> "show", tags |-> tags, andor |-> andor] :
     tags \in {None, Some({"bash"}), Some({"shell"}), Some({"shell", "work"}),
               Some({"bash", "shell"})},
     andor \in {SEARCH_OR, SEARCH_AND}}

\* The command may run: an add needs an oid within the bound.
MayRun(args, file) ==
  args.cmd = "add" =>
    (file = None \/ Storage_load_list(file).l.next_oid <= MaxOid)

\* Program.show with --or whatever the command line says.
ProgramShow_AlwaysOr(p) ==
  /\ inv[p].pc = "start"
  /\ inv[p].args.cmd = "show"
  /\ LET loaded == Storage_load_list(cs_file)
     IN IF loaded.err # NoError
        THEN Exits(p, loaded.err) /\ UNCHANGED found
        ELSE /\ found' = CheatSheet_query_items(
                           loaded.l, EntryMatcherTags(inv[p].args.tags, SEARCH_OR))
             /\ Exits(p, "shown")
  /\ UNCHANGED <<todoVars, sessionVars, todo, recomputed, sheet, cs_file, nsaves, asked>>

\* Program.show
ProgramShow(p) ==
  /\ inv[p].pc = "start"
  /\ inv[p].args.cmd = "show"
  /\ LET loaded == Storage_load_list(cs_file)
     IN IF loaded.err # NoError
        THEN Exits(p, loaded.err) /\ UNCHANGED found
        ELSE /\ found' = CheatSheet_query_items(
                           loaded.l, EntryMatcherTags(inv[p].args.tags, inv[p].args.andor))
             /\ Exits(p, "shown")
  /\ UNCHANGED <<todoVars, sessionVars, todo, recomputed, sheet, cs_file, nsaves, asked>>

\* Program.info
ProgramInfo(p) ==
  /\ inv[p].pc = "start"
  /\ inv[p].args.cmd = "info"
  /\ LET loaded == Storage_load_list(cs_file)
     IN IF loaded.err # NoError
        THEN Exits(p, loaded.err)
        ELSE Exits(p, "info")
  /\ UNCHANGED <<todoVars, sessionVars, todo, recomputed, sheetVars, cs_file, nsaves, asked>>

\* Program.lists
ProgramLists(p) ==
  /\ inv[p].pc = "start"
  /\ inv[p].args.cmd = "lists"
  /\ Exits(p, "lists")
  /\ UNCHANGED <<todoVars, sessionVars, todo, recomputed, sheetVars, cs_file, nsaves, asked>>

\* Program.remove up to the entry it looked up.
ProgramRemoveLoad(p) ==
  /\ inv[p].pc = "start"
  /\ inv[p].args.cmd = "remove"
  /\ LET loaded == Storage_load_list(cs_file)
     IN IF loaded.err # NoError
        THEN Exits(p, loaded.err)
        ELSE LET entry == ItemList_get_item(loaded.l, inv[p].args.oid)
             IN IF entry.err # NoError
                THEN Exits(p, entry.err)
                ELSE inv' = [inv EXCEPT ![p].pc = "loaded", ![p].cs = loaded.l,
                                        ![p].at_load = nsaves]
  /\ UNCHANGED <<todoVars, sessionVars, todo, recomputed, sheetVars, cs_file, nsaves, asked>>

\* Program.remove writing the list also when the user answers no.
ProgramRemoveFinish_SaveOnNo(p) ==
  /\ inv[p].pc = "loaded"
  /\ inv[p].args.cmd = "remove"
  /\ asked' = IF inv[p].args.prompt # FORCE THEN asked \cup {<<p, "remove">>} ELSE asked
  /\ \E answer \in BOOLEAN :
       IF inv[p].args.prompt # FORCE /\ ~answer
       THEN /\ cs_file' = Storage_save_list(inv[p].cs)
            /\ nsaves' = nsaves + 1
            /\ Exits(p, "exit(0)")
       ELSE Saves(p, CheatSheet_remove_item(inv[p].cs, inv[p].args.oid, now).l)
  /\ UNCHANGED <<todoVars, sessionVars, todo, recomputed, sheetVars>>

\* Program.remove from the prompt on: remove_item, save_list.
ProgramRemoveFinish(p) ==
  /\ inv[p].pc = "loaded"
  /\ inv[p].args.cmd = "remove"
  /\ asked' = IF inv[p].args.prompt # FORCE THEN asked \cup {<<p, "remove">>} ELSE asked
  /\ \E answer \in BOOLEAN :
       IF inv[p].args.prompt # FORCE /\ ~answer
       THEN Exits(p, "exit(0)") /\ UNCHANGED <<cs_file, nsaves>>
       ELSE Saves(p, CheatSheet_remove_item(inv[p].cs, inv[p].args.oid, now).l)
  /\ UNCHANGED <<todoVars, sessionVars, todo, recomputed, sheetVars>>

\* The user runs the next command when the last one has ended; nsaves, asked
\* and found are those of the running command.
StartCommand(args) ==
  /\ inv[1].pc = "done"
  /\ MayRun(args, cs_file)
  /\ inv' = [inv EXCEPT ![1] = Started(args)]
  /\ nsaves' = 0
  /\ asked' = {}
  /\ found' = <<>>
  /\ UNCHANGED <<todoVars, sessionVars, todo, recomputed, sheet, cs_file>>

CmdInit ==
  /\ items = <<>>
  /\ next_oid = 1
  /\ modified_date = None
  /\ version = None
  /\ tag_set = {}
  /\ now = 1
  /\ issued = {}
  /\ last = [op |-> "TodoList", err |-> NoError]
  /\ todo_file = None
  /\ ever_issued = {}
  /\ cs_file \in {None, StoredSheet}
  /\ inv \in {[p \in {1} |-> Started(args)] : args \in AllCommands}
  /\ MayRun(inv[1].args, cs_file)
  /\ nsaves = 0
  /\ asked = {}
  /\ sheet = CheatSheet_init(None, None)
  /\ found = <<>>
  /\ todo = None
  /\ recomputed = FALSE

CmdNext ==
  \/ \E args \in AllCommands : StartCommand(args)
  \/ ProgramAddLoad(1)
  \/ ProgramAddFinish(1)
  \/ ProgramUpdateLoad(1)
  \/ ProgramUpdateFinish(1)
  \/ ProgramRemoveLoad(1)
  \/ ProgramRemoveFinish(1)
  \/ ProgramInfo(1)
  \/ ProgramLists(1)
  \/ ProgramShow(1)

CmdSpec == CmdInit /\ [][CmdNext]_vars

\* The entries of the stored document.
StoredEntries == Val(cs_file).cheat_sheet.entries

\* C17: show --tags T --or displays the stored entries that have a tag of T
\* as primary or among their tags, show --tags T --and those whose tags hold
\* all of T, and show without tags all entries.
C17_ShowQuery ==
  [][(ProgramShow(1) /\ inv'[1].exit = "shown") =>
       LET T == inv[1].args.tags
           hits == {j \in 1..Len(StoredEntries) :
                      \/ T = None
                      \/ Val(T) = {}
                      \/ /\ inv[1].args.andor = SEARCH_OR
                         /\ ({StoredEntries[j].primary} \cup Range(StoredEntries[j].tags))
                              \cap Val(T) # {}
                      \/ /\ inv[1].args.andor = SEARCH_AND
                         /\ Val(T) \subseteq Range(StoredEntries[j].tags)}
       IN /\ Len(found') = Cardinality(hits)
          /\ {found'[i].oid : i \in 1..Len(found')} = {StoredEntries[j].oid : j \in hits}]_vars

\* show --tags shell --and has displayed one of two stored entries.
C17_Witness ==
  /\ inv[1].pc = "done"
  /\ inv[1].args.cmd = "show"
  /\ inv[1].exit = "shown"
  /\ inv[1].args.andor = SEARCH_AND
  /\ inv[1].args.tags = Some({"shell"})
  /\ Len(StoredEntries) = 2
  /\ Len(found) = 1

\* The running command has ended in this step.
Ends == inv[1].pc # "done" /\ inv'[1].pc = "done"

\* C19: a command writes the stored document at most once, in the step that
\* ends an add, remove or update whose mutation was made: the document then
\* holds the mutated list.  A command that ends otherwise (info, show, lists,
\* a prompt answered no, a remove or update of an oid the list does not hold)
\* has written nothing.
C19_WritesOnlyOnSuccess ==
  [][/\ (nsaves' > nsaves \/ cs_file' # cs_file) =>
          /\ inv[1].args.cmd \in {"add", "remove", "update"}
          /\ Ends
          /\ inv'[1].exit = "saved"
          /\ nsaves = 0
          /\ nsaves' = 1
          /\ cs_file' # None
          /\ LET before == IF cs_file = None THEN {}
                           ELSE {StoredEntries[j].oid : j \in 1..Len(StoredEntries)}
                 after == Val(cs_file').cheat_sheet.entries
             IN CASE inv[1].args.cmd = "add" ->
                       /\ Len(after) = Cardinality(before) + 1
                       /\ after[Len(after)].clue = inv[1].args.clue
                  [] inv[1].args.cmd = "remove" ->
                       {after[j].oid : j \in 1..Len(after)} = before \ {Some(inv[1].args.oid)}
                  [] inv[1].args.cmd = "update" ->
                       \E j \in 1..Len(after) :
                         /\ after[j].oid = Some(inv[1].args.oid)
                         /\ Some(after[j].clue) = inv[1].args.clue
     /\ (Ends /\ inv'[1].exit # "saved") => (nsaves' = 0 /\ cs_file' = cs_file)
     /\ (Ends /\ inv'[1].exit = "saved") => nsaves' = 1
     /\ (Ends /\ inv[1].args.cmd \in {"info", "show", "lists"}) => inv'[1].exit # "saved"
     /\ (/\ Ends
         /\ inv[1].args.cmd \in {"remove", "update"}
         /\ cs_file # None
         /\ \A j \in 1..Len(StoredEntries) : StoredEntries[j].oid # Some(inv[1].args.oid))
        => inv'[1].exit = InvalidIDError]_vars

\* A remove -i of a stored entry has ended with the prompt answered no.
C19_Witness ==
  /\ inv[1].pc = "done"
  /\ inv[1].args.cmd = "remove"
  /\ inv[1].exit = "exit(0)"
  /\ <<1, "remove">> \in asked
  /\ nsaves = 0
  /\ cs_file # None
  /\ \E j \in 1..Len(StoredEntries) : StoredEntries[j].oid = Some(inv[1].args.oid)

\* C20: add -i on an existing list asks before it adds when the entry's
\* primary tag or one of its tags is neither a tag nor a primary tag of the
\* list, and writes nothing when the answer is no; add -f, and add on a list
\* it has just created, do not ask.
C20_AddPrompt ==
  [][ProgramAddFinish(1) =>
       LET args == inv[1].args
           present == inv[1].cs.tag_set \cup DOMAIN inv[1].cs.primary_map
           fresh == ({args.tags[1]} \cup args.tags[2]) \ present
       IN /\ (args.prompt = PROMPT /\ cs_file # None /\ fresh # {}) =>
               <<1, "new tags">> \in asked'
          /\ (<<1, "new tags">> \in asked' /\ inv'[1].exit = "exit(0)") =>
               UNCHANGED <<cs_file, nsaves>>
          /\ (args.prompt = FORCE \/ cs_file = None) =>
               <<1, "new tags">> \notin asked']_vars

====
